---- MODULE Spec2Model ----
(***************************************************************************)
(* Model of the balancer manager of linkerd-tcp (src/src/lb/manager.rs):   *)
(* the endpoint table (available / retired ordered maps), the dispatch     *)
(* intake, power-of-two-choices selection, the dial pump with top-up and   *)
(* the driver future Managing::poll.                                       *)
(*                                                                         *)
(* The reactor is single-threaded and cooperative: one call of             *)
(* Managing::poll runs to its return without interleaving; the             *)
(* environment (dispatchers, dispatchee owners, forwarding pipes) acts     *)
(* only between polls.  A poll is split into its consecutive phases by pc  *)
(* so that the loops of the code are visible step by step.                 *)
(***************************************************************************)
EXTENDS Naturals, Sequences, FiniteSets

\* ------------------------------------------------------------------ bounds
MaxResolved == 2
MaxDispatchees == 2
MaxSocks == 2
MaxMinConns == 2
MaxFailed == 1
MaxEndpoints == 3

\* f32::MAX, the load of a new Endpoint.  Only the order of loads is used by
\* the code; the number stands for the top of that order.
F32_MAX == 1000

Addrs == {1, 2}
Weights == {1, 2}
Dispatchees == 1..MaxDispatchees
Socks == 1..MaxSocks

VARIABLES
  available,            \* Manager.available: OrderMap<SocketAddr, Endpoint>
  retired,              \* Manager.retired
  minimum_connections,  \* Manager.minimum_connections
  intake,               \* Manager.dispatchees: contents of the mpsc queue
  intake_closed,        \* every sender of the mpsc queue has been dropped
  rx,                   \* per Dispatchee: state of the owner's receiving end
  got,                  \* per Dispatchee: the connections sent into it
  released,             \* sockets whose forwarding pipe has fired its Summary
  pc,                   \* position of the driver inside Managing::poll
  polled,               \* result of self.resolve.poll() in the current poll
  summary,              \* the ConnectionPollSummary of poll_connecting
  idx,                  \* position of the top-up pass in available
  dropped               \* history: per address, the queues of the record last dropped

vars == <<available, retired, minimum_connections, intake_closed, intake, rx, got,
          released, pc, polled, summary, idx, dropped>>

\* ------------------------------------------------------- sequence helpers
Range(s) == {s[i] : i \in 1..Len(s)}

RECURSIVE SumLen(_, _)
\* sum over the endpoints of a map of Len(ep[f])
SumLen(m, f) ==
  IF m = <<>> THEN 0 ELSE Len(Head(m)[f]) + SumLen(Tail(m), f)

SeqsUpTo(S, n) == UNION {[1..k -> S] : k \in 0..n}

Min(a, b) == IF a <= b THEN a ELSE b

\* --------------------------------------------------------------- OrderMap
\* An OrderMap is the sequence of its values in insertion order; the key of
\* an Endpoint is its peer_addr.
Keys(m) == {m[i].peer_addr : i \in 1..Len(m)}

IndexOf(m, a) == CHOOSE i \in 1..Len(m) : m[i].peer_addr = a

Get(m, a) == m[IndexOf(m, a)]

\* OrderMap::insert: replaces the value in place when the key is present,
\* appends otherwise.
Insert(m, ep) ==
  IF ep.peer_addr \in Keys(m)
    THEN [m EXCEPT ![IndexOf(m, ep.peer_addr)] = ep]
    ELSE Append(m, ep)

\* --------------------------------------------------------------- Endpoint
EndpointNew(addr, weight) ==
  [peer_addr   |-> addr,
   weight      |-> weight,
   load        |-> F32_MAX,
   connecting  |-> <<>>,
   connected   |-> <<>>,
   dispatchees |-> <<>>,
   completing  |-> <<>>]

\* is_idle as it would read if warm sockets kept an Endpoint busy.
is_idleWithoutWarmSockets(ep) ==
  ep.connecting = <<>> /\ ep.dispatchees = <<>> /\ ep.connected = <<>>

is_idle(ep) == ep.connecting = <<>> /\ ep.dispatchees = <<>>

\* mk_ctx: a fresh oneshot channel whose receiver is appended to completing;
\* the receiver is named by the socket whose context holds the sender.
mk_ctx(ep, sock) == [ep EXCEPT !.completing = Append(@, sock)]

DefaultSummary == [pending |-> 0, connected |-> 0, dispatched |-> 0, failed |-> 0]

NoPoll == [kind |-> "none", dsts |-> <<>>]

\* The queues of an Endpoint record, as remembered in dropped.
Queues(ep) ==
  [set |-> TRUE, connecting |-> ep.connecting, connected |-> ep.connected,
   dispatchees |-> ep.dispatchees]

NoSnapshot ==
  [set |-> FALSE, connecting |-> <<>>, connected |-> <<>>, dispatchees |-> <<>>]

Init ==
  /\ available = <<>>
  /\ retired = <<>>
  /\ minimum_connections \in 1..MaxMinConns
  /\ intake = <<>>
  /\ intake_closed = FALSE
  /\ rx = [d \in Dispatchees |-> "unsent"]
  /\ got = [d \in Dispatchees |-> <<>>]
  /\ released = {}
  /\ pc = "idle"
  /\ polled = NoPoll
  /\ summary = DefaultSummary
  /\ idx = 0
  /\ dropped = [a \in Addrs |-> NoSnapshot]

\* -------------------------------------------------------- update_resolved
\* lines 190-193: dsts, an OrderMap from address to weight built by inserts; a
\* repeated address keeps its place and takes the later weight.
RECURSIVE MkDsts(_, _)
MkDsts(resolved, dsts) ==
  IF resolved = <<>> THEN dsts
  ELSE LET h == Head(resolved)
           at == {i \in 1..Len(dsts) : dsts[i].addr = h.addr}
       IN MkDsts(Tail(resolved),
                 IF at # {}
                   THEN [i \in 1..Len(dsts) |->
                           IF i \in at THEN [dsts[i] EXCEPT !.weight = h.weight]
                                       ELSE dsts[i]]
                   ELSE Append(dsts, h))

DstKeys(dsts) == {dsts[i].addr : i \in 1..Len(dsts)}

RECURSIVE InsertAll(_, _)
InsertAll(m, eps) ==
  IF eps = <<>> THEN m ELSE InsertAll(Insert(m, Head(eps)), Tail(eps))

\* The retired sweep without salvage: a retired entry named by dsts is
\* dropped instead of being inserted into available.
RECURSIVE SweepRetiredNoSalvage(_, _, _, _)
SweepRetiredNoSalvage(drain, avail, temp, keys) ==
  IF drain = <<>>
    THEN [available |-> avail, retired |-> InsertAll(<<>>, temp)]
  ELSE LET ep == Head(drain) IN
    IF ep.peer_addr \in keys \/ (ep.connecting = <<>> /\ ep.dispatchees = <<>>)
      THEN SweepRetiredNoSalvage(Tail(drain), avail, temp, keys)
      ELSE SweepRetiredNoSalvage(Tail(drain), avail, Append(temp, ep), keys)

\* lines 203-215: the retired map is drained; an entry named by dsts is
\* inserted into available, an idle one is dropped, the others go through temp
\* back into retired.
RECURSIVE SweepRetired(_, _, _, _)
SweepRetired(drain, avail, temp, keys) ==
  IF drain = <<>>
    THEN [available |-> avail, retired |-> InsertAll(<<>>, temp)]
  ELSE LET ep == Head(drain) IN
    IF ep.peer_addr \in keys
      THEN SweepRetired(Tail(drain), Insert(avail, ep), temp, keys)
    ELSE IF is_idle(ep)
      THEN SweepRetired(Tail(drain), avail, temp, keys)
    ELSE SweepRetired(Tail(drain), avail, Append(temp, ep), keys)

\* The available sweep retiring an entry without taking it out of available.
RECURSIVE SweepAvailableCopies(_, _, _, _)
SweepAvailableCopies(drain, ret, temp, keys) ==
  IF drain = <<>>
    THEN [available |-> InsertAll(<<>>, temp), retired |-> ret]
  ELSE LET ep == Head(drain) IN
    IF ep.peer_addr \in keys
      THEN SweepAvailableCopies(Tail(drain), ret, Append(temp, ep), keys)
    ELSE IF ep.connecting = <<>> /\ ep.dispatchees = <<>>
      THEN SweepAvailableCopies(Tail(drain), ret, temp, keys)
    ELSE SweepAvailableCopies(Tail(drain), Insert(ret, ep), Append(temp, ep), keys)

\* lines 222-236: the available map is drained; an entry named by dsts goes
\* through temp back into available, an idle one is dropped, the others are
\* inserted into retired.
RECURSIVE SweepAvailable(_, _, _, _)
SweepAvailable(drain, ret, temp, keys) ==
  IF drain = <<>>
    THEN [available |-> InsertAll(<<>>, temp), retired |-> ret]
  ELSE LET ep == Head(drain) IN
    IF ep.peer_addr \in keys
      THEN SweepAvailable(Tail(drain), ret, Append(temp, ep), keys)
    ELSE IF is_idle(ep)
      THEN SweepAvailable(Tail(drain), ret, temp, keys)
    ELSE SweepAvailable(Tail(drain), Insert(ret, ep), temp, keys)

\* The upsert without line 245: the weight of an Endpoint already in
\* available is left as it was.
RECURSIVE UpsertKeepsWeight(_, _)
UpsertKeepsWeight(avail, dsts) ==
  IF dsts = <<>> THEN avail
  ELSE LET h == Head(dsts) IN
       UpsertKeepsWeight(IF h.addr \in Keys(avail)
                           THEN avail
                           ELSE Append(avail, EndpointNew(h.addr, h.weight)),
                         Tail(dsts))

\* lines 241-246: entry(addr).or_insert_with(Endpoint::new), then the weight
\* is set.
RECURSIVE Upsert(_, _)
Upsert(avail, dsts) ==
  IF dsts = <<>> THEN avail
  ELSE LET h == Head(dsts)
           m == IF h.addr \in Keys(avail)
                  THEN avail
                  ELSE Append(avail, EndpointNew(h.addr, h.weight))
       IN Upsert([m EXCEPT ![IndexOf(m, h.addr)].weight = h.weight], Tail(dsts))

\* update_resolved taking an erroneous result for an empty vector.
update_resolvedErrAsEmpty(avail, ret, res) ==
  LET dsts == MkDsts(res.dsts, <<>>)
      keys == DstKeys(dsts)
      r1 == SweepRetired(ret, avail, <<>>, keys)
      r2 == SweepAvailable(r1.available, r1.retired, <<>>, keys)
  IN [available |-> Upsert(r2.available, dsts), retired |-> r2.retired]

\* update_resolved on the table <<avail, ret>>: res.kind is "ItemOk" with the
\* vector res.dsts, or "ItemErr".
update_resolved(avail, ret, res) ==
  IF res.kind = "ItemOk"
    THEN LET dsts == MkDsts(res.dsts, <<>>)
             keys == DstKeys(dsts)
             r1 == SweepRetired(ret, avail, <<>>, keys)
             r2 == SweepAvailable(r1.available, r1.retired, <<>>, keys)
         IN [available |-> Upsert(r2.available, dsts), retired |-> r2.retired]
    ELSE [available |-> avail, retired |-> ret]

\* ------------------------------------------------------ selection, hand-off
\* select_endpoint comparing with >= at line 110: the more loaded candidate
\* is returned.
select_endpointLargerLoad(avail, i0, i1) ==
  LET sz == Len(avail) IN
  IF sz = 0 THEN 0
  ELSE IF sz = 1 THEN 1
  ELSE LET c0 == IF sz = 2 THEN 1 ELSE i0
           c1 == IF sz = 2 THEN 2 ELSE i1
       IN IF avail[c0].load >= avail[c1].load
            THEN IndexOf(avail, avail[c0].peer_addr)
            ELSE IndexOf(avail, avail[c1].peer_addr)

\* select_endpoint comparing with < at line 110: a tie goes to the second
\* candidate.
select_endpointTieToSecond(avail, i0, i1) ==
  LET sz == Len(avail) IN
  IF sz = 0 THEN 0
  ELSE IF sz = 1 THEN 1
  ELSE LET c0 == IF sz = 2 THEN 1 ELSE i0
           c1 == IF sz = 2 THEN 2 ELSE i1
       IN IF avail[c0].load < avail[c1].load
            THEN IndexOf(avail, avail[c0].peer_addr)
            ELSE IndexOf(avail, avail[c1].peer_addr)

\* select_endpoint, lines 82-129: the index in avail of the Endpoint returned,
\* 0 for None.  i0 and i1 are the two draws of the RNG, used for three or more
\* endpoints only.
select_endpoint(avail, i0, i1) ==
  LET sz == Len(avail) IN
  IF sz = 0 THEN 0
  ELSE IF sz = 1 THEN 1
  ELSE LET c0 == IF sz = 2 THEN 1 ELSE i0
           c1 == IF sz = 2 THEN 2 ELSE i1
       IN IF avail[c0].load <= avail[c1].load
            THEN IndexOf(avail, avail[c0].peer_addr)
            ELSE IndexOf(avail, avail[c1].peer_addr)

\* lines 108-109: the two get_index(..).unwrap() of select_endpoint succeed,
\* i.e. both candidate indices are indices of avail.
select_endpointUnwraps(avail, i0, i1) ==
  LET sz == Len(avail) IN
  sz >= 2 => LET c0 == IF sz = 2 THEN 1 ELSE i0
                 c1 == IF sz = 2 THEN 2 ELSE i1
             IN c0 \in 1..sz /\ c1 \in 1..sz

\* gen_range drawing from 0..sz inclusive.
DrawsPastEnd(avail) ==
  IF Len(avail) < 3 THEN {<<0, 0>>}
  ELSE {<<i0, i1>> : i0 \in 1..(Len(avail) + 1), i1 \in 1..(Len(avail) + 1)} \
       {<<i, i>> : i \in 1..(Len(avail) + 1)}

\* The draws the RNG can hand to select_endpoint (lines 98-104): two distinct
\* indices; for fewer than three endpoints no draw is made.
Draws(avail) ==
  IF Len(avail) < 3 THEN {<<0, 0>>}
  ELSE {<<i0, i1>> : i0 \in 1..Len(avail), i1 \in 1..Len(avail)} \
       {<<i, i>> : i \in 1..Len(avail)}

\* Endpoint::dispatch sending a clone of the front connection and leaving it
\* in connected.
EndpointDispatchNoPop(ep, d, alive) ==
  IF ep.connected = <<>>
    THEN [ep EXCEPT !.dispatchees = Append(@, d)]
    ELSE ep

\* Endpoint::dispatch without line 317: the connection a failed send hands
\* back is dropped.
EndpointDispatchDropsReturned(ep, d, alive) ==
  IF ep.connected = <<>>
    THEN [ep EXCEPT !.dispatchees = Append(@, d)]
    ELSE [ep EXCEPT !.connected = Tail(@)]

\* Endpoint::dispatch, lines 311-321, on the Endpoint: alive says whether the
\* owner of d still holds the receiving end, i.e. whether d.send succeeds.
EndpointDispatch(ep, d, alive) ==
  IF ep.connected = <<>>
    THEN [ep EXCEPT !.dispatchees = Append(@, d)]
  ELSE IF alive
    THEN [ep EXCEPT !.connected = Tail(@)]
    ELSE [ep EXCEPT !.connected = <<Head(ep.connected)>> \o Tail(ep.connected)]

\* Endpoint::dispatch, lines 314-315: what d.send hands to d.
EndpointSent(ep, alive) ==
  IF ep.connected # <<>> /\ alive THEN <<Head(ep.connected)>> ELSE <<>>

\* ------------------------------------------------------------- dial pump
Outcomes == {"NotReady", "Ready", "Err"}

Connected(m) == UNION {Range(m[i].connected) : i \in 1..Len(m)}

Delivered == UNION {Range(got[d]) : d \in Dispatchees}

\* A connector names a new socket by the least name no live socket bears.
FreeSocks(used) == Socks \ used

NewSock(used) == CHOOSE s \in FreeSocks(used) : \A t \in FreeSocks(used) : s <= t

Bump(n) == Min(n + 1, MaxFailed)

\* lines 136-150 for one Endpoint: every dial of connecting is polled once;
\* outs[i] is what the i-th dial answers.  acc carries the Endpoint, the
\* failures counted and the socket names in use.
RECURSIVE PollDials(_, _, _)
PollDials(n, outs, acc) ==
  IF n = 0 THEN acc
  ELSE LET ep == acc.ep
           fut == Head(ep.connecting)
           rest == [ep EXCEPT !.connecting = Tail(@)]
       IN IF Head(outs) = "NotReady"
            THEN PollDials(n - 1, Tail(outs),
                           [acc EXCEPT !.ep = [rest EXCEPT !.connecting = Append(@, fut)]])
          ELSE IF Head(outs) = "Ready"
            THEN IF FreeSocks(acc.used) = {}
                   THEN [acc EXCEPT !.ok = FALSE]
                   ELSE LET sock == NewSock(acc.used) IN
                        PollDials(n - 1, Tail(outs),
                          [acc EXCEPT !.ep = [mk_ctx(rest, sock) EXCEPT !.connected = Append(@, sock)],
                                      !.used = @ \cup {sock}])
          ELSE PollDials(n - 1, Tail(outs),
                         [acc EXCEPT !.ep = rest, !.failed = Bump(@)])

\* lines 135-153 over the whole available map: outs[i] are the answers of the
\* dials of the i-th Endpoint.
RECURSIVE AdvanceDials(_, _, _)
AdvanceDials(todo, outs, acc) ==
  IF todo = <<>> \/ ~acc.ok THEN acc
  ELSE LET r == PollDials(Len(Head(todo).connecting), Head(outs),
                          [ep |-> Head(todo), failed |-> acc.summary.failed,
                           used |-> acc.used, ok |-> TRUE])
       IN AdvanceDials(Tail(todo), Tail(outs),
            [available |-> Append(acc.available, r.ep),
             summary |-> [acc.summary EXCEPT
                            !.failed = r.failed,
                            !.pending = @ + Len(r.ep.connecting),
                            !.connected = @ + Len(r.ep.connected)],
             used |-> r.used,
             ok |-> r.ok])

MaxConnecting(m) ==
  IF m = <<>> THEN 0
  ELSE CHOOSE n \in {Len(m[i].connecting) : i \in 1..Len(m)} :
         \A i \in 1..Len(m) : Len(m[i].connecting) <= n

\* The answers the dials in flight can give in one poll.
DialAnswers(m) ==
  {outs \in [1..Len(m) -> SeqsUpTo(Outcomes, MaxConnecting(m))] :
     \A i \in 1..Len(m) : Len(outs[i]) = Len(m[i].connecting)}

\* The top-up dial with line 163 in force: a dial that is not ready is kept
\* in connecting.
TopUpDialKeepsPending(ep, out, sock) ==
  IF out = "Ready"
    THEN [mk_ctx(ep, sock) EXCEPT !.connected = Append(@, sock)]
  ELSE IF out = "NotReady"
    THEN [ep EXCEPT !.connecting = Append(@, "fut")]
  ELSE ep

\* lines 158-177 on the Endpoint dialled: out is what the first poll of the
\* new dial answers, sock the socket a ready dial yields.
TopUpDial(ep, out, sock) ==
  IF out = "Ready"
    THEN [mk_ctx(ep, sock) EXCEPT !.connected = Append(@, sock)]
    ELSE ep

\* lines 161-177 on the summary.
TopUpCount(sm, out) ==
  IF out = "NotReady" THEN [sm EXCEPT !.pending = @ + 1]
  ELSE IF out = "Ready" THEN [sm EXCEPT !.connected = @ + 1]
  ELSE [sm EXCEPT !.failed = Bump(@)]

\* The condition of the top-up loop with <= for <.
TopUpWantedInclusive(avail, sm, min) ==
  avail # <<>> /\ sm.connected + sm.pending <= min

\* line 155-156: the condition of the top-up loop.
TopUpWanted(avail, sm, min) ==
  avail # <<>> /\ sm.connected + sm.pending < min

\* ------------------------------------------------------------ environment
\* A dispatcher sends a new Dispatchee into the intake queue.
Enqueue ==
  /\ pc = "idle"
  /\ ~intake_closed
  /\ \E d \in Dispatchees :
       /\ rx[d] = "unsent"
       /\ \A e \in Dispatchees : e < d => rx[e] # "unsent"
       /\ rx' = [rx EXCEPT ![d] = "waiting"]
       /\ intake' = Append(intake, d)
  /\ UNCHANGED <<available, retired, minimum_connections, intake_closed, got,
                 released, pc, polled, summary, idx, dropped>>

\* The last sender of the intake queue is dropped: the queue is closed, what
\* it holds can still be received.
CloseIntake ==
  /\ pc = "idle"
  /\ ~intake_closed
  /\ intake_closed' = TRUE
  /\ UNCHANGED <<available, retired, minimum_connections, intake, rx, got,
                 released, pc, polled, summary, idx, dropped>>

\* The owner of a Dispatchee that has received nothing gives up and drops the
\* receiving end.
Cancel ==
  /\ pc = "idle"
  /\ \E d \in Dispatchees :
       /\ rx[d] = "waiting"
       /\ got[d] = <<>>
       /\ rx' = [rx EXCEPT ![d] = "dropped"]
  /\ UNCHANGED <<available, retired, minimum_connections, intake_closed, intake, got,
                 released, pc, polled, summary, idx, dropped>>

\* The forwarding pipe of a dispatched connection ends and fires its Summary.
Release ==
  /\ pc = "idle"
  /\ \E s \in Delivered \ released : released' = released \cup {s}
  /\ UNCHANGED <<available, retired, minimum_connections, intake_closed, intake, rx,
                 got, pc, polled, summary, idx, dropped>>

\* ------------------------------------------------------------- the driver
\* The loop of Manager::dispatch (lines 68-78) on the queue q: each Dispatchee
\* polled from the intake is handed to the Endpoint selected for it; draws[i]
\* are the draws of the RNG for the i-th Dispatchee.  acc carries available,
\* got, what is left of the intake, and whether an unwrap (lines 74, 108, 109)
\* has panicked, which ends the loop with the Dispatchee taken and lost.
RECURSIVE DispatchLoop(_, _, _)
DispatchLoop(q, draws, acc) ==
  IF q = <<>> THEN acc
  ELSE IF ~select_endpointUnwraps(acc.available, Head(draws)[1], Head(draws)[2])
    THEN [acc EXCEPT !.intake = Tail(q), !.panicked = TRUE]
  ELSE LET d == Head(q)
           k == select_endpoint(acc.available, Head(draws)[1], Head(draws)[2])
           alive == rx[d] = "waiting"
       IN IF k = 0
            THEN [acc EXCEPT !.intake = Tail(q), !.panicked = TRUE]
            ELSE LET ep == acc.available[k] IN
                 DispatchLoop(Tail(q), Tail(draws),
                   [acc EXCEPT
                      !.available = [acc.available EXCEPT ![k] = EndpointDispatch(ep, d, alive)],
                      !.got = [acc.got EXCEPT ![d] = @ \o EndpointSent(ep, alive)],
                      !.intake = Tail(q)])

\* Manager::dispatch without the check of lines 63-67.
ManagerDispatchNoEmptyCheck ==
  /\ pc = "idle"
  /\ \E draws \in [1..Len(intake) -> Draws(available)] :
       LET r == DispatchLoop(intake, draws,
                  [available |-> available, got |-> got, intake |-> intake,
                   panicked |-> FALSE])
       IN /\ available' = r.available
          /\ got' = r.got
          /\ intake' = r.intake
          /\ pc' = IF r.panicked THEN "panicked" ELSE "resolve"
  /\ UNCHANGED <<retired, minimum_connections, intake_closed, rx, released, polled,
                 summary, idx, dropped>>

\* Managing::poll is entered (line 334) and calls Manager::dispatch (lines
\* 61-79), which returns at once when available is empty and otherwise takes
\* Dispatchees from the intake until its poll yields none: the queue is empty
\* (not ready) or empty and closed.
ManagerDispatch ==
  /\ pc = "idle"
  /\ IF available = <<>>
       THEN /\ UNCHANGED <<available, intake, got>>
            /\ pc' = "resolve"
       ELSE \E draws \in [1..Len(intake) -> Draws(available)] :
              LET r == DispatchLoop(intake, draws,
                         [available |-> available, got |-> got, intake |-> intake,
                          panicked |-> FALSE])
              IN /\ available' = r.available
                 /\ got' = r.got
                 /\ intake' = r.intake
                 /\ pc' = IF r.panicked THEN "panicked" ELSE "resolve"
  /\ UNCHANGED <<retired, minimum_connections, intake_closed, rx, released, polled,
                 summary, idx, dropped>>

\* What self.resolve.poll() can return (lines 339-347).
ResolverAnswers ==
  {[kind |-> k, dsts |-> <<>>] : k \in {"StreamErr", "NotReady", "End", "ItemErr"}}
  \cup {[kind |-> "ItemOk", dsts |-> v] :
          v \in SeqsUpTo([addr : Addrs, weight : Weights], MaxResolved)}

\* The match of lines 339-347 taking the end of the stream for a not-ready
\* stream.
AfterResolveEndIgnored(kind) == "connecting"

\* lines 339-350: where the poll goes after the resolver has answered: the end
\* of the stream returns Err(ResolverLost) at once (line 343), every other
\* answer falls through to poll_connecting.
AfterResolve(kind) == IF kind = "End" THEN "lost" ELSE "connecting"

\* lines 339-348: the resolver is polled once; an item is handed to
\* update_resolved, the end of the stream ends the poll with ResolverLost.
ResolvePoll ==
  /\ pc = "resolve"
  /\ \E r \in ResolverAnswers :
       LET t == update_resolved(available, retired, r) IN
       /\ polled' = r
       /\ pc' = AfterResolve(r.kind)
       /\ IF r.kind \in {"ItemOk", "ItemErr"}
            THEN /\ available' = t.available
                 /\ retired' = t.retired
                 /\ dropped' = [a \in Addrs |->
                                  IF a \in Keys(available) \ Keys(t.available)
                                    THEN Queues(Get(available, a))
                                    ELSE dropped[a]]
            ELSE UNCHANGED <<available, retired, dropped>>
  /\ UNCHANGED <<minimum_connections, intake_closed, intake, rx, got, released,
                 summary, idx>>

\* line 350, lines 133-156: poll_connecting is entered, the dials in flight
\* are advanced and the condition of the top-up loop is evaluated.
PollConnecting ==
  /\ pc = "connecting"
  /\ \E outs \in DialAnswers(available) :
       LET r == AdvanceDials(available, outs,
                             [available |-> <<>>, summary |-> DefaultSummary,
                              used |-> Connected(available) \cup Connected(retired)
                                         \cup Delivered,
                              ok |-> TRUE])
       IN /\ r.ok
          /\ available' = r.available
          /\ summary' = r.summary
          /\ IF TopUpWanted(r.available, r.summary, minimum_connections)
               THEN pc' = "topup" /\ idx' = 1
               ELSE pc' = "returned" /\ idx' = 0
  /\ polled' = NoPoll
  /\ dropped' = [a \in Addrs |->
                   IF a \in Keys(available) THEN NoSnapshot ELSE dropped[a]]
  /\ UNCHANGED <<retired, minimum_connections, intake_closed, intake, rx, got, released>>

\* One turn of the inner loop of top-up (lines 157-181): a dial to the
\* Endpoint at idx is started and polled once; the pass ends on the break of
\* line 178 or after the last Endpoint, where the condition of line 155 is
\* evaluated again.
TopUpTurn ==
  /\ pc = "topup"
  /\ LET used == Connected(available) \cup Connected(retired) \cup Delivered IN
     \E out \in Outcomes :
       /\ out = "Ready" => FreeSocks(used) # {}
       /\ LET sock == IF out = "Ready" THEN NewSock(used) ELSE 0
              sm == TopUpCount(summary, out)
          IN /\ available' = [available EXCEPT ![idx] = TopUpDial(@, out, sock)]
             /\ summary' = sm
             /\ IF sm.connected + sm.pending = minimum_connections
                  THEN pc' = "returned" /\ idx' = 0
                ELSE IF idx < Len(available)
                  THEN pc' = "topup" /\ idx' = idx + 1
                ELSE IF TopUpWanted(available', sm, minimum_connections)
                  THEN pc' = "topup" /\ idx' = 1
                ELSE pc' = "returned" /\ idx' = 0
  /\ UNCHANGED <<retired, minimum_connections, intake_closed, intake, rx, got,
                 released, polled, dropped>>

\* lines 351-353: poll_connecting has returned its summary, which is traced,
\* and the poll returns Ok(Async::NotReady).
PollReturn ==
  /\ pc = "returned"
  /\ pc' = "idle"
  /\ summary' = DefaultSummary
  /\ UNCHANGED <<available, retired, minimum_connections, intake_closed, intake, rx,
                 got, released, polled, idx, dropped>>

Driver == ManagerDispatch \/ ResolvePoll \/ PollConnecting \/ TopUpTurn
          \/ PollReturn

Environment == Enqueue \/ CloseIntake \/ Cancel \/ Release

Next == Driver \/ Environment

Spec == Init /\ [][Next]_vars

\* The driver is polled again whenever it is woken, and a poll that has been
\* entered runs on: the steps of the driver are weakly fair.  Nothing is
\* assumed of the environment, the resolver or the connector.
FairSpec == Spec /\ WF_vars(Driver)

\* ------------------------------------------- selection on arbitrary tables
\* select_endpoint is a function of the available map alone.  It is applied,
\* through Manager::dispatch, to every available map of up to MaxEndpoints
\* Endpoints, with loads drawn from Loads: also loads that Endpoint::new never
\* gives, so that both branches of the comparison of line 110 are taken.
SelectAddrs == 1..MaxEndpoints

Loads == {0, F32_MAX}

SelectTables ==
  {m \in UNION {[1..n -> {[EndpointNew(a, 1) EXCEPT !.load = l] :
                            a \in SelectAddrs, l \in Loads}] : n \in 0..MaxEndpoints} :
     \A i, j \in 1..Len(m) : i # j => m[i].peer_addr # m[j].peer_addr}

SelectInit ==
  /\ available \in SelectTables
  /\ retired = <<>>
  /\ minimum_connections = 1
  /\ intake_closed = FALSE
  /\ \E k \in 0..MaxDispatchees :
       /\ intake = [i \in 1..k |-> i]
       /\ rx = [d \in Dispatchees |-> IF d <= k THEN "waiting" ELSE "unsent"]
  /\ got = [d \in Dispatchees |-> <<>>]
  /\ released = {}
  /\ pc = "idle"
  /\ polled = NoPoll
  /\ summary = DefaultSummary
  /\ idx = 0
  /\ dropped = [a \in Addrs |-> NoSnapshot]

SelectNext == ManagerDispatch

SelectSpec == SelectInit /\ [][SelectNext]_vars

\* ----------------------------------------------------------------- claims
AllEndpoints == Range(available) \cup Range(retired)

ResolvedAddrs(v) == {v[i].addr : i \in 1..Len(v)}

\* The weight the vector v gives for address a: that of its last entry for a.
ResolvedWeight(v, a) ==
  LET at == {i \in 1..Len(v) : v[i].addr = a}
  IN v[CHOOSE i \in at : \A j \in at : j <= i].weight

\* An update of the table by a successful resolver result is the step from
\* pc = "resolve" in which an item of kind "ItemOk" is polled.
OkUpdate == pc = "resolve" /\ polled'.kind = "ItemOk"

\* The Endpoint holds a dispatched connection whose Summary has not fired.
HoldsDispatched(ep) ==
  \E s \in Range(ep.completing) : s \in Delivered /\ s \notin released

\* C1: in every reachable state no peer address is a key of both the
\* available map and the retired map.
C1_Partition == Keys(available) \cap Keys(retired) = {}

C1_Witness ==
  /\ available # <<>>
  /\ retired # <<>>
  /\ pc = "connecting"
  /\ polled.kind = "ItemOk"

\* C2: a Dispatchee queued on the dispatchees of an available Endpoint, whose
\* owner waits, is eventually handed a socket or cancelled once a dial of
\* that Endpoint has completed (a socket lies in connected), provided the
\* driver keeps being polled (it is idle between two polls again and again).
C2_QueuedEventuallySatisfied ==
  \A d \in Dispatchees :
    []<>(pc = "idle") =>
      ((/\ rx[d] = "waiting"
        /\ got[d] = <<>>
        /\ \E i \in 1..Len(available) :
             /\ d \in Range(available[i].dispatchees)
             /\ available[i].connected # <<>>)
       ~> (got[d] # <<>> \/ rx[d] = "dropped"))

\* C3: whenever poll_connecting returns with the available set non-empty and
\* no dial failed, the connecting and connected queues of the available
\* Endpoints hold at least minimum_connections entries together.
C3_TopUpFloor ==
  (pc = "returned" /\ available # <<>> /\ summary.failed = 0)
    => SumLen(available, "connecting") + SumLen(available, "connected")
         >= minimum_connections

\* C4: every call of poll_connecting terminates: the top-up loop, once
\* entered, is left.
C4_TopUpTerminates == (pc = "topup") ~> (pc = "returned")

\* C5: a Dispatchee receives at most one socket, a socket is delivered to at
\* most one Dispatchee, a satisfied Dispatchee is in no queue and a delivered
\* socket is in no connected queue.
C5_AtMostOnce ==
  /\ \A d \in Dispatchees : Len(got[d]) <= 1
  /\ \A d, e \in Dispatchees : d # e => Range(got[d]) \cap Range(got[e]) = {}
  /\ \A d \in Dispatchees :
       got[d] # <<>> =>
         /\ d \notin Range(intake)
         /\ \A ep \in AllEndpoints : d \notin Range(ep.dispatchees)
  /\ \A ep \in AllEndpoints : Range(ep.connected) \cap Delivered = {}

C5_Witness == \A d \in Dispatchees : Len(got[d]) = 1

\* C6: after update_resolved has been applied to a successful result, the
\* keys of available are exactly the addresses the result names and every
\* available Endpoint bears the weight the result gives for its address.
C6_AvailableIsResolved ==
  (pc = "connecting" /\ polled.kind = "ItemOk") =>
    /\ Keys(available) = ResolvedAddrs(polled.dsts)
    /\ \A i \in 1..Len(available) :
         available[i].weight = ResolvedWeight(polled.dsts, available[i].peer_addr)

C6_Witness ==
  /\ pc = "connecting"
  /\ polled.kind = "ItemOk"
  /\ Len(available) = 2
  /\ \E i, j \in 1..Len(available) :
       /\ available[i].dispatchees # <<>>
       /\ available[i].weight = 2
       /\ available[j].completing = <<>>
       /\ available[j].weight = 1

\* C7: an Endpoint that holds a dispatched connection whose Summary has not
\* fired is not destroyed by a successful resolver update: when the update
\* drops it from available it is in retired afterwards.
C7_ActiveEndpointRetired ==
  [][OkUpdate =>
       \A ep \in Range(available) :
         (ep.peer_addr \notin ResolvedAddrs(polled'.dsts) /\ HoldsDispatched(ep))
           => ep.peer_addr \in Keys(retired')]_vars

\* C8 as stated: when an address that was dropped from available by a
\* successful update is available again after a later successful update, its
\* Endpoint record has the queues the record had when it was dropped.
C8_SameRecordOnReturn ==
  (pc = "connecting" /\ polled.kind = "ItemOk") =>
    \A a \in Keys(available) :
      dropped[a].set => Queues(Get(available, a)) = dropped[a]

\* C8 amended: the same, for a record that was not idle when it was dropped.
C8_SalvagedRecordOnReturn ==
  (pc = "connecting" /\ polled.kind = "ItemOk") =>
    \A a \in Keys(available) :
      (dropped[a].set /\ (dropped[a].connecting # <<>> \/ dropped[a].dispatchees # <<>>))
        => Queues(Get(available, a)) = dropped[a]

C8_Witness ==
  /\ pc = "connecting"
  /\ polled.kind = "ItemOk"
  /\ \E a \in Keys(available) :
       /\ dropped[a].set
       /\ dropped[a].dispatchees # <<>>
       /\ dropped[a].connected # <<>>

\* C9: an Endpoint, available or retired, whose address a successful update
\* does not name is in neither map afterwards when it is idle and in retired
\* afterwards, unchanged, when it is not; and no step but such an update of an
\* idle, unnamed Endpoint removes a retired Endpoint from the table.
C9_AbsentIdleDestroyed ==
  [][/\ OkUpdate =>
          \A ep \in AllEndpoints :
            ep.peer_addr \notin ResolvedAddrs(polled'.dsts) =>
              IF ep.connecting = <<>> /\ ep.dispatchees = <<>>
                THEN ep.peer_addr \notin Keys(available') \cup Keys(retired')
                ELSE /\ ep.peer_addr \in Keys(retired')
                     /\ Get(retired', ep.peer_addr) = ep
     /\ \A ep \in Range(retired) :
          ep.peer_addr \notin Keys(available') \cup Keys(retired') =>
            /\ OkUpdate
            /\ ep.peer_addr \notin ResolvedAddrs(polled'.dsts)
            /\ ep.connecting = <<>>
            /\ ep.dispatchees = <<>>]_vars

C9_Witness ==
  /\ pc = "connecting"
  /\ polled.kind = "ItemOk"
  /\ retired # <<>>
  /\ \E a \in Addrs :
       /\ dropped[a].set
       /\ dropped[a].dispatchees = <<>>
       /\ dropped[a].connected # <<>>
       /\ a \notin Keys(available) \cup Keys(retired)

\* C10: a resolver error leaves available and retired as they are, and the
\* poll that receives it goes on to poll_connecting and ends by returning
\* not-ready.
C10_ResolverErrorIgnored ==
  [][/\ (pc = "resolve" /\ polled'.kind \in {"ItemErr", "StreamErr"}) =>
          /\ available' = available
          /\ retired' = retired
          /\ pc' = "connecting"
     /\ pc \in {"connecting", "topup"} => pc' \in {"topup", "returned"}
     /\ pc = "returned" => pc' = "idle"]_vars

C10_Witness ==
  /\ pc = "connecting"
  /\ polled.kind = "ItemErr"
  /\ available # <<>>
  /\ retired # <<>>

\* C11: the driver future ends only with ResolverLost, in the poll in which
\* the resolver reports the end of its stream, and in that poll the table is
\* not touched after the end is seen; a completed future takes no further
\* step; every other poll, whether the intake is open or closed, goes through
\* dispatch, the resolver and poll_connecting and ends by returning not-ready.
C11_EndsOnlyWithResolverLost ==
  [][/\ (pc = "resolve" /\ polled'.kind = "End") =>
          /\ pc' = "lost"
          /\ available' = available
          /\ retired' = retired
     /\ pc' = "lost" => (pc = "resolve" /\ polled'.kind = "End")
     /\ pc # "lost"
     /\ (pc = "idle" /\ pc' # "idle") => pc' = "resolve"
     /\ (pc = "resolve" /\ polled'.kind # "End") => pc' = "connecting"
     /\ pc = "connecting" => pc' \in {"topup", "returned"}
     /\ pc = "topup" => pc' \in {"topup", "returned"}
     /\ pc = "returned" => (pc' = "idle" /\ available' = available /\ retired' = retired)]_vars

C11_Witness ==
  /\ pc = "lost"
  /\ polled.kind = "End"
  /\ intake_closed
  /\ available # <<>>
  /\ retired # <<>>

\* C12: a call of Manager::dispatch made while available is empty leaves the
\* intake queue, and everything else, as it was; a call made while available
\* is non-empty takes every queued Dispatchee out of the intake, and each of
\* them is then satisfied, queued on an available Endpoint, or discarded
\* because its owner has given up.
C12_EmptyAvailableKeepsIntake ==
  [][(pc = "idle" /\ pc' # "idle") =>
       IF available = <<>>
         THEN /\ intake' = intake
              /\ got' = got
              /\ available' = available
         ELSE /\ intake' = <<>>
              /\ \A d \in Range(intake) :
                   \/ got'[d] # <<>>
                   \/ \E i \in 1..Len(available') : d \in Range(available'[i].dispatchees)
                   \/ rx[d] = "dropped"]_vars

C12_Witness ==
  /\ pc = "resolve"
  /\ available = <<>>
  /\ Len(intake) = MaxDispatchees

\* C13: Endpoint::dispatch of a Dispatchee whose owner has given up, on an
\* Endpoint whose connected queue is non-empty, returns the Endpoint as it was
\* (connected in the same order, dispatchees and load untouched) and sends
\* nothing; a call of Manager::dispatch whose Dispatchees have all been given
\* up and meet a warm Endpoint leaves the table and the deliveries unchanged.
C13_FailedSendRestoresSocket ==
  [][/\ \A ep \in AllEndpoints : \A d \in Dispatchees :
          ep.connected # <<>> =>
            /\ EndpointDispatch(ep, d, FALSE) = ep
            /\ EndpointSent(ep, FALSE) = <<>>
     /\ (/\ pc = "idle" /\ pc' # "idle"
         /\ available # <<>>
         /\ available[1].connected # <<>>
         /\ intake # <<>>
         /\ \A d \in Range(intake) : rx[d] = "dropped") =>
          /\ available' = available
          /\ got' = got
          /\ intake' = <<>>]_vars

C13_Witness ==
  /\ pc = "resolve"
  /\ available # <<>>
  /\ available[1].connected # <<>>
  /\ \E d \in Dispatchees :
       /\ rx[d] = "dropped"
       /\ got[d] = <<>>
       /\ d \notin Range(intake)
       /\ \A ep \in AllEndpoints : d \notin Range(ep.dispatchees)

\* C14: the load of an Endpoint grows by one with each socket a call of
\* Manager::dispatch hands from it to a Dispatchee, and shrinks by one when
\* the Summary of one of its dispatched connections is received.
C14_LoadCountsDispatched ==
  [][/\ (pc = "idle" /\ pc' = "resolve") =>
          \A i \in 1..Len(available) :
            available'[i].load
              = available[i].load
                  + (Len(available[i].connected) - Len(available'[i].connected))
     /\ (pc = "idle" /\ released' # released) =>
          \A ep \in AllEndpoints :
            Range(ep.completing) \cap (released' \ released) # {} =>
              \E fp \in Range(available') \cup Range(retired') :
                fp.peer_addr = ep.peer_addr /\ fp.load + 1 = ep.load]_vars

\* C16: the completing queue of an Endpoint holds a receiver for exactly the
\* connections it has dispatched: none for a socket that waits in connected.
C16_CompletingIsDispatched ==
  \A ep \in AllEndpoints :
    /\ Range(ep.completing) \cap Range(ep.connected) = {}
    /\ Range(ep.completing) \subseteq Delivered

\* C18: in every reachable state the connecting queue of every Endpoint is
\* empty, so an Endpoint is idle exactly when its dispatchees queue is empty;
\* and a socket enters a connected queue only in a turn of top-up.
C18_ConnectingAlwaysEmpty ==
  /\ [](\A ep \in AllEndpoints :
          /\ ep.connecting = <<>>
          /\ is_idle(ep) <=> ep.dispatchees = <<>>)
  /\ [][(Connected(available') \cup Connected(retired'))
          \ (Connected(available) \cup Connected(retired)) # {}
            => (pc = "topup" /\ summary'.connected = summary.connected + 1)]_vars

C18_Witness ==
  /\ pc = "returned"
  /\ summary.pending > 0
  /\ summary.connected > 0
  /\ \A ep \in AllEndpoints : ep.connecting = <<>>
  /\ \E ep \in AllEndpoints : ep.connected # <<>>

\* C19: the load of every Endpoint is the one it was created with, and a call
\* of Manager::dispatch made while exactly two Endpoints are available hands
\* every Dispatchee it takes to the Endpoint at index 0: the other Endpoint is
\* left as it was.
C19_TwoEndpointsFirstWins ==
  /\ [](\A ep \in AllEndpoints : ep.load = F32_MAX)
  /\ [][(pc = "idle" /\ pc' # "idle" /\ Len(available) = 2) =>
          /\ available'[2] = available[2]
          /\ \A d \in Range(intake) :
               \/ /\ got'[d] # got[d]
                  /\ Range(got'[d]) \subseteq Range(available[1].connected)
               \/ d \in Range(available'[1].dispatchees)
               \/ rx[d] = "dropped"]_vars

C19_Witness ==
  /\ pc = "resolve"
  /\ Len(available) = 2
  /\ available[1].dispatchees # <<>>
  /\ available[1].connected = <<>>
  /\ available[2].connected # <<>>
  /\ \E d \in Dispatchees : got[d] # <<>>

\* C20: top-up is entered only below the target, every turn of it adds one to
\* connected + pending (a dial that did not fail) or leaves the count and the
\* table as they were (a dial that failed), and when it is left the count
\* equals minimum_connections.
C20_TopUpNeverOvershoots ==
  [][/\ (pc = "connecting" /\ pc' = "topup") =>
          /\ available' # <<>>
          /\ summary'.connected + summary'.pending < minimum_connections
     /\ pc = "topup" =>
          /\ summary.connected + summary.pending < minimum_connections
          /\ \/ summary'.connected + summary'.pending
                  = summary.connected + summary.pending + 1
             \/ /\ summary'.connected + summary'.pending
                     = summary.connected + summary.pending
                /\ available' = available
     /\ (pc = "topup" /\ pc' = "returned") =>
          summary'.connected + summary'.pending = minimum_connections]_vars

C20_Witness ==
  /\ pc = "returned"
  /\ minimum_connections = MaxMinConns
  /\ summary.connected + summary.pending = minimum_connections
  /\ summary.pending > 0
  /\ summary.failed > 0

\* C15: select_endpoint returns none exactly for the empty map, the sole
\* Endpoint of a map of one, and for two or more Endpoints one of two
\* candidates at distinct valid indices (the first two for a map of two):
\* one whose load is not greater than the other's, the first candidate when
\* the loads are equal.
C15_SelectLeastLoadedOfTwo ==
  LET n == Len(available) IN
  \A dr \in Draws(available) :
    LET k == select_endpoint(available, dr[1], dr[2])
        c0 == IF n = 2 THEN 1 ELSE dr[1]
        c1 == IF n = 2 THEN 2 ELSE dr[2]
    IN /\ k = 0 <=> n = 0
       /\ n = 1 => k = 1
       /\ n >= 2 =>
            /\ c0 # c1
            /\ c0 \in 1..n
            /\ c1 \in 1..n
            /\ k \in {c0, c1}
            /\ available[k].load <= available[c0].load
            /\ available[k].load <= available[c1].load
            /\ available[c0].load = available[c1].load => k = c0

C15_Witness ==
  /\ pc = "resolve"
  /\ Len(available) = 3
  /\ available[1].load > available[3].load
  /\ available[2].load = available[3].load
  /\ available[1].dispatchees = <<>>
  /\ available[2].dispatchees = <<>>
  /\ Len(available[3].dispatchees) = 2

\* C17: no unwrap of the dispatch path fails: whenever Manager::dispatch takes
\* a Dispatchee from the intake the available map is non-empty and keeps its
\* keys through the loop, select_endpoint returns an Endpoint of it, and the
\* candidate indices it looks up are indices of the map.
C17_UnwrapsNeverFail ==
  /\ [](pc # "panicked")
  /\ [][(pc = "idle" /\ intake' # intake /\ Len(intake') < Len(intake)) =>
          /\ available # <<>>
          /\ Len(available') = Len(available)
          /\ \A i \in 1..Len(available) :
               available'[i].peer_addr = available[i].peer_addr
          /\ \A dr \in Draws(available) :
               /\ select_endpointUnwraps(available, dr[1], dr[2])
               /\ select_endpoint(available, dr[1], dr[2]) \in 1..Len(available)]_vars

C17_Witness ==
  /\ pc = "resolve"
  /\ Len(available) = 3
  /\ intake = <<>>
  /\ available[2].dispatchees # <<>>
  /\ available[3].dispatchees # <<>>
====
